---- MODULE Spec2Model ----
(***************************************************************************)
(* A model of slidemachine/slidemachine.py: the Slide class (apply, html)  *)
(* and the SlideMachine class (_read_md_file, process).                    *)
(*                                                                         *)
(* A line of text is a sequence of one-character strings, so that the      *)
(* search for the slide-break pattern inside a line is computed and not    *)
(* assumed.  The value a processor returns for a line is either a str or   *)
(* a tuple of str (Python's dynamic types), modelled as a tagged record.   *)
(***************************************************************************)
EXTENDS Integers, Sequences, FiniteSets, TLC

\* ------------------------------------------------------------------ bounds
\* Longest markdown file, in lines.
MaxDocLen == 3
\* Longest configured list of processors.
MaxProcs == 2

\* ------------------------------------------------------------- the inputs
\* The lines a markdown file is made of: an image tag, a caption, a line that
\* is the slide break, and a line that holds the slide break after other text.
LineSet ==
    { <<"I">>, <<"c">>, <<">", ">", ">">>, <<"c", ">", ">", ">">> }

RECURSIVE SeqsUpTo(_, _)
SeqsUpTo(S, n) ==
    IF n = 0 THEN { <<>> }
    ELSE LET shorter == SeqsUpTo(S, n - 1)
         IN  shorter \cup { Append(q, x) : q \in { r \in shorter : Len(r) = n - 1 }, x \in S }

\* What processor.process(line) hands back: a str, or a tuple of str.
Str(line) == [type |-> "str", val |-> line]
Tuple(lines) == [type |-> "tuple", val |-> lines]

\* The processors of the model, by class name.  Each is a pure function of the
\* line.  A line a processor does not recognise is returned as it is.
ProcessorNames == { "Identity", "Img", "Fan", "Both" }

process(processor, line) ==
    CASE processor = "Identity" -> Str(line)
      [] processor = "Img" ->
            IF line = <<"I">> THEN Tuple(<< <<"1">>, <<"2">>, <<"3">> >>)
            ELSE IF line = <<"c">> THEN Str(<<"C">>)
            ELSE Str(line)
      [] processor = "Fan" ->
            IF line = <<"I">> THEN Tuple(<< <<"1">>, <<"2">> >>)
            ELSE IF line = <<"1">> THEN Tuple(<< >>)
            ELSE IF line = <<"2">> THEN Tuple(<< <<"2">> >>)
            ELSE IF line = <<"3">> THEN Tuple(<< <<"3">>, <<"1">> >>)
            ELSE Str(line)
      [] processor = "Both" ->
            IF line = <<"I">> THEN Tuple(<< <<"1">> >>)
            ELSE IF line = <<"c">> THEN Tuple(<< <<"c">>, <<"C">> >>)
            ELSE IF line = <<"2">> THEN Tuple(<< <<"2">> >>)
            ELSE IF line = <<"C">> THEN Tuple(<< <<"C">> >>)
            ELSE Str(line)

\* ------------------------------------------------------------------- state
VARIABLES
    md_file_content,   \* SlideMachine._md_file_content: the lines of the file
    processors,        \* SlideMachine._processors
    force,             \* SlideMachine._force
    output_file,       \* the output file on disk: <<>> when absent, else <<content>>
    slides,            \* SlideMachine._slides: a sequence of Slide objects
    html,              \* the local list html of process
    pc,                \* where the program is
    proc_i,            \* position of the loop over self._processors
    slide_i,           \* position of the loop over self._slides
    error,             \* the exception that ended the run, <<>> when none
    calls,             \* history: the calls process has made, in order
    before,            \* history: the last apply call, and the slide it was given
    expanded           \* history: per slide, has a line ever returned a tuple

vars == << md_file_content, processors, force, output_file, slides, html, pc,
           proc_i, slide_i, error, calls, before, expanded >>

\* ------------------------------------------------------------------- Slide
\* Slide.__init__
NewSlide(slide_lines) ==
    [ _slide_lines |-> slide_lines,
      _sub_slides |-> << slide_lines >>,
      _override_transition |-> FALSE ]

\* The text of an exception raised by Slide.apply.
SlideMachineError(processor, slide) ==
    [ type |-> "SlideMachineError", processor |-> processor,
      offending |-> slide._slide_lines ]

\* Mutant of ScanLines: the test for an earlier expansion is expanded_line > 0,
\* which misses an expansion of the first line.
RECURSIVE ScanLinesOffByOne(_, _, _, _, _)
ScanLinesOffByOne(sub_slide, processor, idx, new_lines, expanded_line) ==
    IF idx > Len(sub_slide)
    THEN [ raised |-> FALSE, new_lines |-> new_lines, expanded_line |-> expanded_line ]
    ELSE LET i == idx - 1
             new_line == process(processor, sub_slide[idx])
             appended == Append(new_lines, new_line)
         IN  IF new_line.type = "tuple"
             THEN IF expanded_line > 0
                  THEN [ raised |-> TRUE, new_lines |-> appended,
                         expanded_line |-> expanded_line ]
                  ELSE ScanLinesOffByOne(sub_slide, processor, idx + 1, appended, i)
             ELSE ScanLinesOffByOne(sub_slide, processor, idx + 1, appended, expanded_line)

\* Mutant of ScanLines: a tuple of one element is taken for its element, a
\* plain line, and not for an expansion.
RECURSIVE ScanLinesUnwrapOne(_, _, _, _, _)
ScanLinesUnwrapOne(sub_slide, processor, idx, new_lines, expanded_line) ==
    IF idx > Len(sub_slide)
    THEN [ raised |-> FALSE, new_lines |-> new_lines, expanded_line |-> expanded_line ]
    ELSE LET i == idx - 1
             returned == process(processor, sub_slide[idx])
             new_line == IF returned.type = "tuple" /\ Len(returned.val) = 1
                         THEN Str(returned.val[1]) ELSE returned
             appended == Append(new_lines, new_line)
         IN  IF new_line.type = "tuple"
             THEN IF expanded_line >= 0
                  THEN [ raised |-> TRUE, new_lines |-> appended,
                         expanded_line |-> expanded_line ]
                  ELSE ScanLinesUnwrapOne(sub_slide, processor, idx + 1, appended, i)
             ELSE ScanLinesUnwrapOne(sub_slide, processor, idx + 1, appended, expanded_line)

\* Mutant of ScanLines: a line that did not expand is recorded as it was
\* given, not as the processor returned it.
RECURSIVE ScanLinesKeepLine(_, _, _, _, _)
ScanLinesKeepLine(sub_slide, processor, idx, new_lines, expanded_line) ==
    IF idx > Len(sub_slide)
    THEN [ raised |-> FALSE, new_lines |-> new_lines, expanded_line |-> expanded_line ]
    ELSE LET i == idx - 1
             new_line == process(processor, sub_slide[idx])
             appended == Append(new_lines, IF new_line.type = "tuple" THEN new_line
                                           ELSE Str(sub_slide[idx]))
         IN  IF new_line.type = "tuple"
             THEN IF expanded_line >= 0
                  THEN [ raised |-> TRUE, new_lines |-> appended,
                         expanded_line |-> expanded_line ]
                  ELSE ScanLinesKeepLine(sub_slide, processor, idx + 1, appended, i)
             ELSE ScanLinesKeepLine(sub_slide, processor, idx + 1, appended, expanded_line)

\* The inner loop of Slide.apply, from line number idx of sub_slide on.
\* expanded_line counts from 0 as enumerate does, and is -1 for none.
RECURSIVE ScanLines(_, _, _, _, _)
ScanLines(sub_slide, processor, idx, new_lines, expanded_line) ==
    IF idx > Len(sub_slide)
    THEN [ raised |-> FALSE, new_lines |-> new_lines, expanded_line |-> expanded_line ]
    ELSE LET i == idx - 1
             new_line == process(processor, sub_slide[idx])
             appended == Append(new_lines, new_line)
         IN  IF new_line.type = "tuple"
             THEN IF expanded_line >= 0
                  THEN [ raised |-> TRUE, new_lines |-> appended,
                         expanded_line |-> expanded_line ]
                  ELSE ScanLines(sub_slide, processor, idx + 1, appended, i)
             ELSE ScanLines(sub_slide, processor, idx + 1, appended, expanded_line)

\* The values of a run of new_lines that holds no tuple.
Vals(results) == [ j \in 1..Len(results) |-> results[j].val ]

\* Mutant of BuildSubSlides: the variants are taken last to first.
RECURSIVE BuildSubSlidesReversed(_, _, _, _, _)
BuildSubSlidesReversed(first_half, variants, second_half, i, new_sub_slides) ==
    IF i > Len(variants) THEN new_sub_slides
    ELSE LET out == (Append(first_half, variants[Len(variants) + 1 - i])) \o second_half
         IN  BuildSubSlidesReversed(first_half, variants, second_half, i + 1,
                                    Append(new_sub_slides, out))

\* The loop that builds one new sub-slide per element of the expanded line.
RECURSIVE BuildSubSlides(_, _, _, _, _)
BuildSubSlides(first_half, variants, second_half, i, new_sub_slides) ==
    IF i > Len(variants) THEN new_sub_slides
    ELSE LET out == (Append(first_half, variants[i])) \o second_half
         IN  BuildSubSlides(first_half, variants, second_half, i + 1,
                            Append(new_sub_slides, out))

\* Mutant of ExtendSubSlides: second_half is cut at expanded_line, not at
\* expanded_line + 1, and keeps the expanded line.
ExtendSubSlidesOffByOne(new_sub_slides, scan) ==
    IF scan.expanded_line >= 0
    THEN LET first_half == Vals(SubSeq(scan.new_lines, 1, scan.expanded_line))
             second_half == Vals(SubSeq(scan.new_lines, scan.expanded_line + 1,
                                        Len(scan.new_lines)))
         IN  BuildSubSlides(first_half, scan.new_lines[scan.expanded_line + 1].val,
                            second_half, 1, new_sub_slides)
    ELSE Append(new_sub_slides, Vals(scan.new_lines))

\* Mutant of ExtendSubSlides: an expanding sub-slide starts the list anew, and
\* the sub-slides collected before it are lost.
ExtendSubSlidesReset(new_sub_slides, scan) ==
    IF scan.expanded_line >= 0
    THEN LET first_half == Vals(SubSeq(scan.new_lines, 1, scan.expanded_line))
             second_half == Vals(SubSeq(scan.new_lines, scan.expanded_line + 2,
                                        Len(scan.new_lines)))
         IN  BuildSubSlides(first_half, scan.new_lines[scan.expanded_line + 1].val,
                            second_half, 1, << >>)
    ELSE Append(new_sub_slides, Vals(scan.new_lines))

\* What one sub-slide adds to new_sub_slides, given the result of its scan.
ExtendSubSlides(new_sub_slides, scan) ==
    IF scan.expanded_line >= 0
    THEN LET first_half == Vals(SubSeq(scan.new_lines, 1, scan.expanded_line))
             second_half == Vals(SubSeq(scan.new_lines, scan.expanded_line + 2,
                                        Len(scan.new_lines)))
         IN  BuildSubSlides(first_half, scan.new_lines[scan.expanded_line + 1].val,
                            second_half, 1, new_sub_slides)
    ELSE Append(new_sub_slides, Vals(scan.new_lines))

\* The outer loop of Slide.apply, from sub-slide number q on.
RECURSIVE ApplyLoop(_, _, _, _, _)
ApplyLoop(slide, processor, q, new_sub_slides, processor_expanded_slide) ==
    IF q > Len(slide._sub_slides)
    THEN [ raised |-> FALSE, new_sub_slides |-> new_sub_slides,
           processor_expanded_slide |-> processor_expanded_slide ]
    ELSE LET scan == ScanLines(slide._sub_slides[q], processor, 1, << >>, -1)
         IN  IF scan.raised
             THEN [ raised |-> TRUE, new_sub_slides |-> new_sub_slides,
                    processor_expanded_slide |-> TRUE ]
             ELSE ApplyLoop(slide, processor, q + 1,
                            ExtendSubSlides(new_sub_slides, scan),
                            processor_expanded_slide \/ scan.expanded_line >= 0)

\* Mutant of NewOverride: the flag is what this pass found, and a pass
\* without expansion clears it.
NewOverrideNotSticky(old, processor_expanded_slide) == processor_expanded_slide

\* The override flag after a pass that ran to its end.
NewOverride(old, processor_expanded_slide) ==
    IF processor_expanded_slide THEN TRUE ELSE old

\* Slide.apply: the slide it leaves, and whether it raised.  A raise leaves
\* the slide as it was: both assignments to self come after the loops.
apply(slide, processor) ==
    LET r == ApplyLoop(slide, processor, 1, << >>, FALSE)
    IN  IF r.raised
        THEN [ raised |-> TRUE, slide |-> slide ]
        ELSE [ raised |-> FALSE,
               slide |-> [ slide EXCEPT
                   !._sub_slides = r.new_sub_slides,
                   !._override_transition =
                       NewOverride(slide._override_transition,
                                   r.processor_expanded_slide) ] ]

\* "".join(s)
RECURSIVE Join(_)
Join(s) == IF s = << >> THEN << >> ELSE Head(s) \o Join(Tail(s))

SectionNone == "<section data-transition=\"none\">"
SectionPlain == "<section>"

\* The opening tag Slide.html gives each sub-slide.
SectionStart(override_transition) ==
    IF override_transition THEN SectionNone ELSE SectionPlain

\* Slide.html: one wrapper per sub-slide.  The markdown renderer is outside
\* this file; middle is the text it is given.
SlideHtml(slide) ==
    [ q \in 1..Len(slide._sub_slides) |->
        [ start |-> SectionStart(slide._override_transition),
          middle |-> Join(slide._sub_slides[q]),
          end |-> "</section>" ] ]

\* ------------------------------------------------------------ SlideMachine
\* SlideMachine.__init__: the pattern that breaks slides.
slide_break == << ">", ">", ">" >>

\* re.search of a literal pattern: is there a match starting at i or later?
RECURSIVE SearchFrom(_, _, _)
SearchFrom(pattern, line, i) ==
    IF i + Len(pattern) - 1 > Len(line) THEN FALSE
    ELSE IF SubSeq(line, i, i + Len(pattern) - 1) = pattern THEN TRUE
    ELSE SearchFrom(pattern, line, i + 1)

\* Mutant of Search: re.match in place of re.search, a match at the start only.
SearchAnchored(pattern, line) ==
    /\ Len(pattern) <= Len(line)
    /\ SubSeq(line, 1, Len(pattern)) = pattern

Search(pattern, line) == SearchFrom(pattern, line, 1)

\* Mutant of ReadLoop: a slide without lines is not recorded.
RECURSIVE ReadLoopSkipEmpty(_, _, _, _)
ReadLoopSkipEmpty(content, i, acc, slide_content) ==
    LET added == IF slide_content = << >> THEN acc
                 ELSE Append(acc, NewSlide(slide_content))
    IN  IF i > Len(content) THEN added
        ELSE IF Search(slide_break, content[i])
             THEN ReadLoopSkipEmpty(content, i + 1, added, << >>)
             ELSE ReadLoopSkipEmpty(content, i + 1, acc, Append(slide_content, content[i]))

\* The loop of _read_md_file, from line number i on, and the append after it.
RECURSIVE ReadLoop(_, _, _, _)
ReadLoop(content, i, acc, slide_content) ==
    IF i > Len(content) THEN Append(acc, NewSlide(slide_content))
    ELSE IF Search(slide_break, content[i])
         THEN ReadLoop(content, i + 1, Append(acc, NewSlide(slide_content)), << >>)
         ELSE ReadLoop(content, i + 1, acc, Append(slide_content, content[i]))

\* Mutant of Advance: the loops are nested the other way round, slides
\* outermost.
AdvanceSlideMajor(p, s, np, ns) ==
    IF p < np THEN [ pc |-> "apply", p |-> p + 1, s |-> s ]
    ELSE IF s < ns THEN [ pc |-> "apply", p |-> 1, s |-> s + 1 ]
    ELSE [ pc |-> "html", p |-> p, s |-> 1 ]

\* The two loops of process over processors and slides: where the loops stand
\* after the turn for processor p and slide s, of np processors and ns slides.
Advance(p, s, np, ns) ==
    IF s < ns THEN [ pc |-> "apply", p |-> p, s |-> s + 1 ]
    ELSE IF p < np THEN [ pc |-> "apply", p |-> p + 1, s |-> 1 ]
    ELSE [ pc |-> "html", p |-> p, s |-> 1 ]

\* Does processor return a tuple for some line of some sub-slide of slide?
ReturnsTuple(slide, processor) ==
    \E q \in 1..Len(slide._sub_slides) :
        \E j \in 1..Len(slide._sub_slides[q]) :
            process(processor, slide._sub_slides[q][j]).type = "tuple"

\* -------------------------------------------------------------------- Init
Init ==
    /\ md_file_content \in SeqsUpTo(LineSet, MaxDocLen)
    /\ processors \in SeqsUpTo(ProcessorNames, MaxProcs)
    /\ force \in BOOLEAN
    /\ output_file \in { << >>, << "old" >> }
    /\ slides = << >>
    /\ html = << >>
    /\ pc = "read"
    /\ proc_i = 1
    /\ slide_i = 1
    /\ error = << >>
    /\ calls = << >>
    /\ before = << >>
    /\ expanded = << >>

\* ----------------------------------------------------------------- actions
\* SlideMachine._read_md_file, the last step of the constructor.
ReadMdFile ==
    /\ pc = "read"
    /\ slides' = ReadLoop(md_file_content, 1, << >>, << >>)
    /\ expanded' = [ s \in 1..Len(slides') |-> FALSE ]
    /\ pc' = "process"
    /\ UNCHANGED << md_file_content, processors, force, output_file, html,
                    proc_i, slide_i, error, calls, before >>

\* process, up to the loops: the output file must not be there.
ProcessStart ==
    /\ pc = "process"
    /\ IF output_file # << >> /\ ~force
       THEN /\ error' = [ type |-> "IOError" ]
            /\ pc' = "failed"
            /\ UNCHANGED output_file
       ELSE /\ output_file' = << >>
            /\ pc' = IF processors = << >> THEN "html" ELSE "apply"
            /\ UNCHANGED error
    /\ UNCHANGED << md_file_content, processors, force, slides, html,
                    proc_i, slide_i, calls, before, expanded >>

\* One turn of the inner loop of process: slide.apply(processor).
ApplyStep ==
    /\ pc = "apply"
    /\ LET r == apply(slides[slide_i], processors[proc_i])
           to == Advance(proc_i, slide_i, Len(processors), Len(slides))
       IN  /\ calls' = Append(calls, [ op |-> "apply", p |-> proc_i, s |-> slide_i ])
           /\ before' = << [ p |-> proc_i, s |-> slide_i, slide |-> slides[slide_i] ] >>
           /\ expanded' = [ expanded EXCEPT ![slide_i] =
                               @ \/ ReturnsTuple(slides[slide_i], processors[proc_i]) ]
           /\ IF r.raised
              THEN /\ error' = SlideMachineError(processors[proc_i], slides[slide_i])
                   /\ pc' = "failed"
                   /\ UNCHANGED << slides, proc_i, slide_i >>
              ELSE /\ slides' = [ slides EXCEPT ![slide_i] = r.slide ]
                   /\ pc' = to.pc
                   /\ proc_i' = to.p
                   /\ slide_i' = to.s
                   /\ UNCHANGED error
    /\ UNCHANGED << md_file_content, processors, force, output_file, html >>

\* One turn of the second loop of process: html.append(slide.html).
HtmlStep ==
    /\ pc = "html"
    /\ html' = Append(html, SlideHtml(slides[slide_i]))
    /\ calls' = Append(calls, [ op |-> "html", p |-> 0, s |-> slide_i ])
    /\ IF slide_i < Len(slides)
       THEN /\ slide_i' = slide_i + 1
            /\ UNCHANGED pc
       ELSE /\ slide_i' = 1
            /\ pc' = "write"
    /\ UNCHANGED << md_file_content, processors, force, output_file, slides,
                    proc_i, error, before, expanded >>

\* The end of process: join the html and write it out.
WriteStep ==
    /\ pc = "write"
    /\ output_file' = << Join(html) >>
    /\ calls' = Append(calls, [ op |-> "write", p |-> 0, s |-> 0 ])
    /\ pc' = "done"
    /\ UNCHANGED << md_file_content, processors, force, slides, html,
                    proc_i, slide_i, error, before, expanded >>

Next ==
    \/ ReadMdFile
    \/ ProcessStart
    \/ ApplyStep
    \/ HtmlStep
    \/ WriteStep

Spec == Init /\ [][Next]_vars

\* ================================================================== claims
\* Vocabulary of the claims, stated apart from the loops above.

\* A delimiter line: the slide-break marker occurs somewhere in the line.
IsDelimiter(line) ==
    \E i \in 1..Len(line) :
        /\ i + Len(slide_break) - 1 <= Len(line)
        /\ \A d \in 1..Len(slide_break) : line[i + d - 1] = slide_break[d]

NotDelimiter(line) == ~IsDelimiter(line)

DelimiterAt == { i \in 1..Len(md_file_content) : IsDelimiter(md_file_content[i]) }

\* The file has been split into slides.
HasRead == pc # "read"
\* The constructor has just returned: the file is split, process not begun.
Constructed == pc = "process"

\* The original lines of all slides, one slide after the other.
RECURSIVE OriginalLines(_)
OriginalLines(n) ==
    IF n = 0 THEN << >> ELSE OriginalLines(n - 1) \o slides[n]._slide_lines

\* The lines of sub for which processor returns a tuple.
TupleLines(sub, processor) ==
    { j \in 1..Len(sub) : process(processor, sub[j]).type = "tuple" }

\* The sub-slide that variant v at line k makes of sub.
Variant(sub, processor, k, v) ==
    [ j \in 1..Len(sub) |-> IF j = k THEN v ELSE process(processor, sub[j]).val ]

\* The sub-slides that sub is to become: one per variant of its one expanding
\* line, in the order of the variants, or sub processed line by line.
Group(sub, processor) ==
    LET T == TupleLines(sub, processor)
    IN  IF T = { }
        THEN << [ j \in 1..Len(sub) |-> process(processor, sub[j]).val ] >>
        ELSE LET k == CHOOSE j \in T : TRUE
                 variants == process(processor, sub[k]).val
             IN  [ i \in 1..Len(variants) |-> Variant(sub, processor, k, variants[i]) ]

\* The number of new sub-slides that come before those of sub-slide number q.
RECURSIVE Offset(_, _, _)
Offset(subs, processor, q) ==
    IF q <= 1 THEN 0
    ELSE Offset(subs, processor, q - 1) + Len(Group(subs[q - 1], processor))

\* An apply call has been made; these are its processor, the slide as it was
\* given and the slide as it is now.
Called == before # << >>
CallProcessor == processors[before[1].p]
Given == before[1].slide
Now == slides[before[1].s]
\* The last call of process was an apply call, and it returned.
Returned == Called /\ error = << >> /\ calls[Len(calls)].op = "apply"

\* Two distinct lines of one sub-slide both return a tuple.
TwoExpand(slide, processor) ==
    \E q \in 1..Len(slide._sub_slides) :
        Cardinality(TupleLines(slide._sub_slides[q], processor)) >= 2

\* C4: when the constructor returns there are exactly (number of delimiter
\* lines) + 1 slides; a delimiter on the first line makes the first slide
\* empty, one on the last line makes the last slide empty, and two delimiters
\* on adjacent lines make the slide between them empty.
SlideCountLaw ==
    Constructed =>
        /\ Len(slides) = Cardinality(DelimiterAt) + 1
        /\ \A i \in DelimiterAt :
              LET n == Cardinality({ d \in DelimiterAt : d <= i })
              IN  /\ i = 1 => slides[1]._slide_lines = << >>
                  /\ i = Len(md_file_content) =>
                        slides[Len(slides)]._slide_lines = << >>
                  /\ (i + 1) \in DelimiterAt => slides[n + 1]._slide_lines = << >>

\* C4 witness: a file read whose first two lines and last line are delimiters.
SlideCountWitness ==
    /\ Constructed
    /\ Len(md_file_content) = 3
    /\ DelimiterAt = { 1, 2, 3 }
    /\ Len(slides) = 4

\* C5: when the constructor returns, the slides' original lines, one slide
\* after the other, are the lines of the file without the delimiter lines, in
\* the order of the file; a file without delimiter lines is one slide holding
\* every line; no slide holds a delimiter line.
SplitKeepsLines ==
    Constructed =>
        /\ OriginalLines(Len(slides)) = SelectSeq(md_file_content, NotDelimiter)
        /\ DelimiterAt = { } =>
              /\ Len(slides) = 1
              /\ slides[1]._slide_lines = md_file_content
        /\ \A s \in 1..Len(slides) :
              \A j \in 1..Len(slides[s]._slide_lines) :
                  ~IsDelimiter(slides[s]._slide_lines[j])

\* C5 witness: a file read that holds a line with the marker after other text
\* between two ordinary lines.
SplitKeepsLinesWitness ==
    /\ Constructed
    /\ md_file_content = << <<"I">>, <<"c", ">", ">", ">">>, <<"c">> >>
    /\ Len(slides) = 2
    /\ slides[1]._slide_lines = << <<"I">> >>
    /\ slides[2]._slide_lines = << <<"c">> >>

\* The new sub-slides that the first n sub-slides of subs are to become.
RECURSIVE Groups(_, _, _)
Groups(subs, processor, n) ==
    IF n = 0 THEN << >>
    ELSE Groups(subs, processor, n - 1) \o Group(subs[n], processor)

\* The run ended with an exception of this type.
Failed(type) == error # << >> /\ error.type = type

\* C1: when an apply call returns and exactly one line, k, of a sub-slide of n
\* lines returned a tuple of M variants, that sub-slide is replaced by exactly
\* M new sub-slides, each of n lines: the i-th holds the i-th variant at k and
\* at every other line what the processor returned for that line.
ExpansionLaw ==
    Returned =>
        \A q \in 1..Len(Given._sub_slides) :
            LET sub == Given._sub_slides[q]
                T == TupleLines(sub, CallProcessor)
            IN  Cardinality(T) = 1 =>
                    LET k == CHOOSE j \in T : TRUE
                        variants == process(CallProcessor, sub[k]).val
                        M == Len(variants)
                        off == Offset(Given._sub_slides, CallProcessor, q)
                    IN  /\ Len(Now._sub_slides) >= off + M
                        /\ Len(Given._sub_slides) = 1 => Len(Now._sub_slides) = M
                        /\ Len(Now._sub_slides) - M =
                              Offset(Given._sub_slides, CallProcessor,
                                     Len(Given._sub_slides) + 1)
                              - Len(Group(sub, CallProcessor))
                        /\ \A i \in 1..M :
                              LET new == Now._sub_slides[off + i]
                              IN  /\ Len(new) = Len(sub)
                                  /\ new[k] = variants[i]
                                  /\ \A j \in 1..Len(sub) :
                                        j # k => new[j] = process(CallProcessor, sub[j]).val

\* C1 witness: a slide of one sub-slide of two lines, the first of which
\* returned three variants and the second a changed line, is now three
\* sub-slides.
ExpansionWitness ==
    /\ Returned
    /\ Len(Given._sub_slides) = 1
    /\ Len(Given._sub_slides[1]) = 2
    /\ TupleLines(Given._sub_slides[1], CallProcessor) = { 1 }
    /\ Len(process(CallProcessor, Given._sub_slides[1][1]).val) = 3
    /\ process(CallProcessor, Given._sub_slides[1][2]).val # Given._sub_slides[1][2]
    /\ Len(Now._sub_slides) = 3

\* C2: when two distinct lines of one sub-slide return a tuple in an apply
\* call, the run fails there with the error that names the processor and
\* the slide's original lines; after that error nothing is rendered, nothing
\* is written to the output file and no further call is made.
FatalErrorLaw ==
    /\ (Called /\ TwoExpand(Given, CallProcessor)) =>
          /\ Failed("SlideMachineError")
          /\ error.processor = CallProcessor
          /\ error.offending = Given._slide_lines
    /\ Failed("SlideMachineError") =>
          /\ pc = "failed"
          /\ ~ENABLED Next
          /\ html = << >>
          /\ output_file = << >>
          /\ \A k \in 1..Len(calls) : calls[k].op = "apply"
          /\ calls[Len(calls)] = [ op |-> "apply", p |-> before[1].p, s |-> before[1].s ]
          /\ Now = Given

\* C2 witness: the run has failed in the second sub-slide of a slide, in the
\* second pass, with other slides still to come.
FatalErrorWitness ==
    /\ Called
    /\ TwoExpand(Given, CallProcessor)
    /\ Failed("SlideMachineError")
    /\ before[1].p = 2
    /\ before[1].s < Len(slides)
    /\ Cardinality(TupleLines(Given._sub_slides[1], CallProcessor)) = 1

\* C3: while no error has been raised a slide's override flag is true exactly
\* when some line of it has returned a tuple in some apply call so far; every
\* wrapper rendered for a slide has the no-transition marker exactly in that
\* case; an apply call never takes the flag from true to false.
TransitionOverrideLaw ==
    /\ (HasRead /\ error = << >>) =>
          \A s \in 1..Len(slides) : slides[s]._override_transition = expanded[s]
    /\ \A s \in 1..Len(html) :
          \A w \in 1..Len(html[s]) :
              /\ html[s][w].start \in { SectionNone, SectionPlain }
              /\ (html[s][w].start = SectionNone) = expanded[s]
    /\ Returned => (Given._override_transition => Now._override_transition)

\* C3 witness: the run is done; the last pass took a slide from two sub-slides
\* back to one, and its one wrapper has the marker.
TransitionOverrideWitness ==
    /\ pc = "done"
    /\ Called
    /\ Len(Given._sub_slides) = 2
    /\ Len(Now._sub_slides) = 1
    /\ Len(html[before[1].s]) = 1
    /\ html[before[1].s][1].start = SectionNone

\* C6: when an apply call returns and no line of the slide returned a tuple,
\* the slide has as many sub-slides as before, each as long as before, every
\* line is what the processor returned for the line that was there, and the
\* override flag is as before; if the processor returned every line as it
\* was, the sub-slides are as before.
NonExpandingLaw ==
    (Returned /\ \A q \in 1..Len(Given._sub_slides) :
                     TupleLines(Given._sub_slides[q], CallProcessor) = { }) =>
        /\ Len(Now._sub_slides) = Len(Given._sub_slides)
        /\ \A q \in 1..Len(Given._sub_slides) :
              /\ Len(Now._sub_slides[q]) = Len(Given._sub_slides[q])
              /\ \A j \in 1..Len(Given._sub_slides[q]) :
                    Now._sub_slides[q][j] =
                        process(CallProcessor, Given._sub_slides[q][j]).val
        /\ Now._override_transition = Given._override_transition
        /\ (\A q \in 1..Len(Given._sub_slides) :
              \A j \in 1..Len(Given._sub_slides[q]) :
                  process(CallProcessor, Given._sub_slides[q][j])
                      = Str(Given._sub_slides[q][j]))
            => Now._sub_slides = Given._sub_slides

\* C6 witness: a slide of two sub-slides with the flag set went through a
\* processor that returned no tuple and changed a line.
NonExpandingWitness ==
    /\ Returned
    /\ Len(Given._sub_slides) = 2
    /\ Given._override_transition
    /\ \A q \in 1..2 : TupleLines(Given._sub_slides[q], CallProcessor) = { }
    /\ Now._sub_slides # Given._sub_slides

\* The call that process makes in place k: processors outermost, slides in
\* the order of the file within a processor, then one html per slide in the
\* order of the file, then the write.
CallInOrder(k) ==
    LET np == Len(processors)
        ns == Len(slides)
    IN  IF k <= np * ns
        THEN [ op |-> "apply", p |-> ((k - 1) \div ns) + 1, s |-> ((k - 1) % ns) + 1 ]
        ELSE IF k <= np * ns + ns
        THEN [ op |-> "html", p |-> 0, s |-> k - np * ns ]
        ELSE [ op |-> "write", p |-> 0, s |-> 0 ]

\* C7: the calls of process are made in this order: for each processor in
\* the configured order, apply to every slide in the order of the file, all
\* of them before the first apply of the next processor; rendering starts
\* after the last apply, in the order of the file; the write comes last.
ProcessOrderLaw ==
    /\ Len(calls) <= Len(processors) * Len(slides) + Len(slides) + 1
    /\ \A k \in 1..Len(calls) : calls[k] = CallInOrder(k)
    /\ pc \in { "html", "write", "done" } =>
          Len(calls) >= Len(processors) * Len(slides)
    /\ pc = "done" => Len(calls) = Len(processors) * Len(slides) + Len(slides) + 1

\* C7 witness: a run of two processors over two slides is done.
ProcessOrderWitness ==
    /\ pc = "done"
    /\ Len(processors) = 2
    /\ Len(slides) = 2
    /\ processors[1] # processors[2]

\* C8: a tuple of one element is an expansion like any other.  When an apply
\* call returns, a sub-slide whose one expanding line returned one variant is
\* replaced by one sub-slide and the override flag is true; if no tuple was
\* longer than one, the slide has as many sub-slides as before.  When a
\* sub-slide has a line that returns a tuple of one and another line that
\* returns a tuple, the call raises.
LengthOneLaw ==
    /\ Returned =>
          /\ \A q \in 1..Len(Given._sub_slides) :
                LET sub == Given._sub_slides[q]
                    T == TupleLines(sub, CallProcessor)
                IN  (\E k \in T : Len(process(CallProcessor, sub[k]).val) = 1) =>
                        LET k == CHOOSE j \in T : TRUE
                            off == Offset(Given._sub_slides, CallProcessor, q)
                        IN  /\ T = { k }
                            /\ Now._override_transition
                            /\ Len(Now._sub_slides) > off
                            /\ Now._sub_slides[off + 1] =
                                  Variant(sub, CallProcessor, k,
                                          process(CallProcessor, sub[k]).val[1])
                            /\ Offset(Given._sub_slides, CallProcessor, q + 1) = off + 1
          /\ (\A q \in 1..Len(Given._sub_slides) :
                \A k \in TupleLines(Given._sub_slides[q], CallProcessor) :
                    Len(process(CallProcessor, Given._sub_slides[q][k]).val) = 1)
              => Len(Now._sub_slides) = Len(Given._sub_slides)
    /\ (Called /\ \E q \in 1..Len(Given._sub_slides) :
                    LET sub == Given._sub_slides[q]
                        T == TupleLines(sub, CallProcessor)
                    IN  \E k1 \in T : \E k2 \in T :
                           /\ k1 # k2
                           /\ Len(process(CallProcessor, sub[k1]).val) = 1)
          => Failed("SlideMachineError")

\* C8 witness: a slide of one sub-slide whose flag was not set went through
\* a processor that returned a tuple of one for one line; it still has one
\* sub-slide, with the variant in it, and the flag is set.
LengthOneWitness ==
    /\ Returned
    /\ Len(Given._sub_slides) = 1
    /\ ~Given._override_transition
    /\ \E k \in TupleLines(Given._sub_slides[1], CallProcessor) :
          /\ Len(process(CallProcessor, Given._sub_slides[1][k]).val) = 1
          /\ Now._sub_slides[1][k] = process(CallProcessor, Given._sub_slides[1][k]).val[1]
          /\ Now._sub_slides[1][k] # Given._sub_slides[1][k]
    /\ Len(Now._sub_slides) = 1
    /\ Now._override_transition

\* C9: once the file is read, every sub-slide of every slide has as many
\* lines as the slide's original lines, and an apply call leaves the
\* original lines as they were.
SubSlideLengths ==
    /\ HasRead =>
          \A s \in 1..Len(slides) :
              \A q \in 1..Len(slides[s]._sub_slides) :
                  Len(slides[s]._sub_slides[q]) = Len(slides[s]._slide_lines)
    /\ Called => Now._slide_lines = Given._slide_lines

\* C9 witness: a slide of two lines that had several sub-slides went through
\* a second pass in which a line expanded, and has several sub-slides now.
SubSlideLengthsWitness ==
    /\ Returned
    /\ before[1].p = 2
    /\ Len(Now._slide_lines) = 2
    /\ Len(Given._sub_slides) >= 2
    /\ \E q \in 1..Len(Given._sub_slides) :
          TupleLines(Given._sub_slides[q], CallProcessor) # { }
    /\ Len(Now._sub_slides) >= 2

\* C10: an apply call raises only if some sub-slide has two lines that return
\* a tuple; when it returns, the slide's sub-slides are, for each sub-slide it
\* had, in their order, the sub-slides that one becomes, and nothing else, so
\* that their number is the sum of the numbers of variants (1 where no line
\* expanded).
RecombinationLaw ==
    /\ (Called /\ ~TwoExpand(Given, CallProcessor)) => error = << >>
    /\ Returned =>
          /\ Now._sub_slides =
                Groups(Given._sub_slides, CallProcessor, Len(Given._sub_slides))
          /\ Len(Now._sub_slides) =
                Offset(Given._sub_slides, CallProcessor, Len(Given._sub_slides) + 1)

\* C10 witness: an apply call returned in which two sub-slides of one slide
\* each expanded a line, one into one variant and one into two.
RecombinationWitness ==
    /\ Returned
    /\ \E q1 \in 1..Len(Given._sub_slides) :
          \E q2 \in 1..Len(Given._sub_slides) :
              /\ Cardinality(TupleLines(Given._sub_slides[q1], CallProcessor)) = 1
              /\ Cardinality(TupleLines(Given._sub_slides[q2], CallProcessor)) = 1
              /\ Len(Group(Given._sub_slides[q1], CallProcessor)) = 1
              /\ Len(Group(Given._sub_slides[q2], CallProcessor)) = 2

====
